---- MODULE Spec2Model ----
(***************************************************************************)
(* State-machine model of the To-Do List Manager (src/todo_list.py):      *)
(* class Task, class TodoListManager and the JSON backing file.           *)
(*                                                                         *)
(* A string is a sequence of one-character strings, so that str.strip()   *)
(* and str.lower() are computed character by character.  None is the      *)
(* value NoneVal.  A timestamp is the text datetime.now().strftime(...)   *)
(* returns; the local clock is an input of every operation that reads it. *)
(***************************************************************************)
EXTENDS Integers, Sequences, FiniteSets, TLC

\* ------------------------------------------------------------------ bounds
\* add_task is taken only while next_id <= MaxId (caps the id counter).
MaxId == 2

\* ------------------------------------------------------------------ inputs
\* Description arguments handed to mark_task_completed / remove_task and
\* the queries: empty, blank, two spellings that differ in case only,
\* a padded spelling and an unrelated one.
Descriptions ==
    { <<>>, <<" ">>, <<"a">>, <<"A">>, <<" ", "a", " ">>, <<"b">> }

\* (description, priority, category) argument triples of add_task;
\* "medium" and "general" are the defaults of the signature.
AddArguments ==
    { << <<>>,            "medium", "general" >>,
      << <<" ">>,         "high",   "work"    >>,
      << <<"a">>,         "medium", "general" >>,
      << <<"A">>,         "high",   "work"    >>,
      << <<" ", "a", " ">>, "high", "work"    >>,
      << <<"b">>,         "medium", "general" >> }

\* Texts datetime.now().strftime("%Y-%m-%d %H:%M:%S") can return.
Timestamps == { "2025-01-01 10:00:00", "2025-01-01 10:00:01" }

\* Bound of the two-manager runs: add_task is offered while the running
\* manager's next_id is at most MaxSharedId.
MaxSharedId == 2

\* The add_task calls and the clock readings of the two-manager runs
SharedArguments ==
    { << <<"a">>, "medium", "general" >>,
      << <<"b">>, "high", "work" >> }

SharedTimestamps == { "2025-01-01 10:00:00" }

\* Python's None (completed_date of a pending task, a failed lookup).
NoneVal == "None"

\* ------------------------------------------------------------------ state
VARIABLES
    tasks,      \* self.tasks: sequence of Task objects
    next_id,    \* self.next_id
    file,       \* content of self.data_file on disk
    writable,   \* whether open(self.data_file, 'w') + json.dump succeeds
    last,       \* the call made last: its name, arguments and return value
    assigned,   \* history: the ids add_task has assigned so far
    assigned_since_clear, \* history: those assigned since the last
                          \* clear_all_tasks
    other       \* the managers of other processes that share data_file:
                \* a sequence of their (tasks, next_id)

vars == << tasks, next_id, file, writable, last,
           assigned, assigned_since_clear, other >>

\* ------------------------------------------------------------ str methods
Whitespace == { " " }

LowerChar(c) == IF c = "A" THEN "a" ELSE IF c = "B" THEN "b" ELSE c

\* str.lower()
lower(s) == [i \in 1..Len(s) |-> LowerChar(s[i])]

RECURSIVE lstrip(_)
lstrip(s) ==
    IF s # <<>> /\ Head(s) \in Whitespace THEN lstrip(Tail(s)) ELSE s

RECURSIVE rstrip(_)
rstrip(s) ==
    IF s # <<>> /\ s[Len(s)] \in Whitespace
    THEN rstrip(SubSeq(s, 1, Len(s) - 1))
    ELSE s

\* str.strip()
strip(s) == rstrip(lstrip(s))

\* ------------------------------------------------------------- class Task
\* Task.__init__ at local time t
Task(description, priority, category, t) ==
    [ id             |-> NoneVal,
      description    |-> description,
      status         |-> "pending",
      priority       |-> priority,
      category       |-> category,
      created_date   |-> t,
      completed_date |-> NoneVal ]

\* Fault variant of mark_completed: self.completed_date is not set
mark_completed_not_stamped(task, t) ==
    [task EXCEPT !.status = "completed"]

\* Task.mark_completed at local time t
mark_completed(task, t) ==
    [task EXCEPT !.status = "completed", !.completed_date = t]

\* Task.to_dict
to_dict(task) ==
    [ id             |-> task.id,
      description    |-> task.description,
      status         |-> task.status,
      priority       |-> task.priority,
      category       |-> task.category,
      created_date   |-> task.created_date,
      completed_date |-> task.completed_date ]

\* Fault variant of from_dict: task.created_date is not restored, so the
\* constructor's stamp stays
from_dict_created_date_kept(data, t) ==
    [ Task(data.description, data.priority, data.category, t) EXCEPT
        !.id             = data.id,
        !.status         = data.status,
        !.completed_date = data.completed_date ]

\* Fault variant of from_dict: task.status is not restored, so the
\* constructor's "pending" stays
from_dict_status_not_restored(data, t) ==
    [ Task(data.description, data.priority, data.category, t) EXCEPT
        !.id             = data.id,
        !.created_date   = data.created_date,
        !.completed_date = data.completed_date ]

\* Task.from_dict at local time t (the constructor stamps created_date,
\* which from_dict then overwrites)
from_dict(data, t) ==
    [ Task(data.description, data.priority, data.category, t) EXCEPT
        !.id             = data.id,
        !.status         = data.status,
        !.created_date   = data.created_date,
        !.completed_date = data.completed_date ]

\* ------------------------------------------------------- the backing file
FileAbsent      == [kind |-> "absent"]
\* the zero-byte temporary file of the test steps: json.load raises
FileUnparseable == [kind |-> "unparseable"]
FileJson(data)  == [kind |-> "json", data |-> data]
\* parseable JSON whose top level is an array: data.get raises
FileJsonArray   == [kind |-> "json_array"]

\* the object json.dump writes in save_tasks
SaveData(nid, ts) ==
    [ next_id |-> nid,
      tasks   |-> [i \in 1..Len(ts) |-> to_dict(ts[i])] ]

\* Fault variant of save_tasks: the records found in the file whose ids the
\* manager does not hold are written back in front of the manager's own
save_tasks_merged(nid, ts) ==
    IF ~writable THEN file
    ELSE IF file.kind # "json" THEN FileJson(SaveData(nid, ts))
    ELSE LET kept == SelectSeq(file.data.tasks,
                        LAMBDA r : \A i \in 1..Len(ts) : ts[i].id # r.id)
         IN  FileJson([ next_id |-> nid,
                        tasks   |-> kept \o SaveData(nid, ts).tasks ])

\* TodoListManager.save_tasks: the file content after the call, the
\* manager holding counter nid and task list ts.  A failed write is caught
\* and printed; the file is left as it was.
save_tasks(nid, ts) ==
    IF writable THEN FileJson(SaveData(nid, ts)) ELSE file

\* The keys Task.from_dict reads with data[...]; a record without one of
\* them makes it raise KeyError.
TaskKeys ==
    { "description", "priority", "category", "id", "status",
      "created_date", "completed_date" }

\* TodoListManager.__init__ + load_tasks on file content f at local time t:
\* the (next_id, tasks) the new manager holds.  A file that exists is
\* parsed; data.get supplies 1 and [] for a missing key; any exception
\* (json.load on unparseable text, data.get on a top-level array, KeyError
\* in from_dict) is caught and resets the manager to (1, []).  Values are
\* taken as they are: nothing checks their types.
load_tasks(f, t) ==
    IF f.kind = "absent" THEN
        [next_id |-> 1, tasks |-> <<>>]
    ELSE IF f.kind = "json" THEN
        LET nid  == IF "next_id" \in DOMAIN f.data
                    THEN f.data.next_id ELSE 1
            recs == IF "tasks" \in DOMAIN f.data
                    THEN f.data.tasks ELSE <<>>
        IN  IF \A i \in 1..Len(recs) : TaskKeys \subseteq DOMAIN recs[i]
            THEN [ next_id |-> nid,
                   tasks   |-> [i \in 1..Len(recs) |->
                                   from_dict(recs[i], t)] ]
            ELSE [next_id |-> 1, tasks |-> <<>>]
    ELSE
        [next_id |-> 1, tasks |-> <<>>]

\* --------------------------------------------------------------- queries
\* Indexes of the tasks whose description equals d ignoring case
Matching(ts, d) ==
    { i \in 1..Len(ts) : lower(ts[i].description) = lower(d) }

Min(S) == CHOOSE i \in S : \A j \in S : i <= j

\* TodoListManager.list_tasks
list_tasks == tasks

\* Fault variant of list_pending_tasks: the status test is missing
list_pending_tasks_unfiltered == tasks

\* TodoListManager.list_pending_tasks: a new list, self.tasks is not touched
list_pending_tasks ==
    SelectSeq(tasks, LAMBDA task : task.status = "pending")

\* TodoListManager.list_completed_tasks
list_completed_tasks ==
    SelectSeq(tasks, LAMBDA task : task.status = "completed")

\* Fault variant of get_task_by_description: compares the descriptions
\* without lower()
get_task_by_description_exact_case(description) ==
    LET M == { i \in 1..Len(tasks) : tasks[i].description = description }
    IN  IF M = {} THEN <<>> ELSE << tasks[Min(M)] >>

\* TodoListManager.get_task_by_description: <<task>> or <<>> for None
get_task_by_description(description) ==
    LET M == Matching(tasks, description)
    IN  IF M = {} THEN <<>> ELSE << tasks[Min(M)] >>

\* TodoListManager.is_empty
is_empty == Len(tasks) = 0

\* Fault variant of contains_task: lower() is applied to the stored
\* description only
contains_task_argument_not_lowered(description) ==
    \E i \in 1..Len(tasks) :
        lower(tasks[i].description) = description

\* TodoListManager.contains_task
contains_task(description) ==
    \E i \in 1..Len(tasks) :
        lower(tasks[i].description) = lower(description)

\* ------------------------------------------------------------- operations
\* Fault variant of add_task: self.next_id += 1 is missing
add_task_no_increment(description, priority, category, t) ==
    IF strip(description) = <<>> THEN
        /\ last' = [op |-> "add_task", description |-> description,
                    priority |-> priority, category |-> category,
                    result |-> FALSE]
        /\ UNCHANGED << tasks, next_id, file, writable >>
    ELSE
        LET task == [Task(strip(description), priority, category, t)
                        EXCEPT !.id = next_id]
        IN  /\ tasks' = Append(tasks, task)
            /\ next_id' = next_id
            /\ file' = save_tasks(next_id, Append(tasks, task))
            /\ last' = [op |-> "add_task", description |-> description,
                        priority |-> priority, category |-> category,
                        result |-> TRUE]
            /\ UNCHANGED writable

\* Fault variant of add_task: the id is taken from the list length
\* instead of the counter
add_task_id_from_length(description, priority, category, t) ==
    IF strip(description) = <<>> THEN
        /\ last' = [op |-> "add_task", description |-> description,
                    priority |-> priority, category |-> category,
                    result |-> FALSE]
        /\ UNCHANGED << tasks, next_id, file, writable >>
    ELSE
        LET task == [Task(strip(description), priority, category, t)
                        EXCEPT !.id = Len(tasks) + 1]
        IN  /\ tasks' = Append(tasks, task)
            /\ next_id' = Len(tasks) + 2
            /\ file' = save_tasks(Len(tasks) + 2, Append(tasks, task))
            /\ last' = [op |-> "add_task", description |-> description,
                        priority |-> priority, category |-> category,
                        result |-> TRUE]
            /\ UNCHANGED writable

\* Fault variant of add_task: the Task is built from the description as
\* given, not from description.strip()
add_task_not_stripped(description, priority, category, t) ==
    IF strip(description) = <<>> THEN
        /\ last' = [op |-> "add_task", description |-> description,
                    priority |-> priority, category |-> category,
                    result |-> FALSE]
        /\ UNCHANGED << tasks, next_id, file, writable >>
    ELSE
        LET task == [Task(description, priority, category, t)
                        EXCEPT !.id = next_id]
        IN  /\ tasks' = Append(tasks, task)
            /\ next_id' = next_id + 1
            /\ file' = save_tasks(next_id + 1, Append(tasks, task))
            /\ last' = [op |-> "add_task", description |-> description,
                        priority |-> priority, category |-> category,
                        result |-> TRUE]
            /\ UNCHANGED writable

\* Fault variant of add_task: the guard is "if not description", without
\* strip()
add_task_blank_accepted(description, priority, category, t) ==
    IF description = <<>> THEN
        /\ last' = [op |-> "add_task", description |-> description,
                    priority |-> priority, category |-> category,
                    result |-> FALSE]
        /\ UNCHANGED << tasks, next_id, file, writable >>
    ELSE
        LET task == [Task(strip(description), priority, category, t)
                        EXCEPT !.id = next_id]
        IN  /\ tasks' = Append(tasks, task)
            /\ next_id' = next_id + 1
            /\ file' = save_tasks(next_id + 1, Append(tasks, task))
            /\ last' = [op |-> "add_task", description |-> description,
                        priority |-> priority, category |-> category,
                        result |-> TRUE]
            /\ UNCHANGED writable

\* Fault variant of add_task: a failed write is reported to the caller
\* and the appended task is taken back
add_task_rolled_back(description, priority, category, t) ==
    IF strip(description) = <<>> \/ ~writable THEN
        /\ last' = [op |-> "add_task", description |-> description,
                    priority |-> priority, category |-> category,
                    result |-> FALSE]
        /\ UNCHANGED << tasks, next_id, file, writable >>
    ELSE
        LET task == [Task(strip(description), priority, category, t)
                        EXCEPT !.id = next_id]
        IN  /\ tasks' = Append(tasks, task)
            /\ next_id' = next_id + 1
            /\ file' = save_tasks(next_id + 1, Append(tasks, task))
            /\ last' = [op |-> "add_task", description |-> description,
                        priority |-> priority, category |-> category,
                        result |-> TRUE]
            /\ UNCHANGED writable

\* Fault variant of add_task: self.tasks.insert(0, task) in place of
\* self.tasks.append(task)
add_task_inserted_first(description, priority, category, t) ==
    IF strip(description) = <<>> THEN
        /\ last' = [op |-> "add_task", description |-> description,
                    priority |-> priority, category |-> category,
                    result |-> FALSE]
        /\ UNCHANGED << tasks, next_id, file, writable >>
    ELSE
        LET task == [Task(strip(description), priority, category, t)
                        EXCEPT !.id = next_id]
        IN  /\ tasks' = << task >> \o tasks
            /\ next_id' = next_id + 1
            /\ file' = save_tasks(next_id + 1, << task >> \o tasks)
            /\ last' = [op |-> "add_task", description |-> description,
                        priority |-> priority, category |-> category,
                        result |-> TRUE]
            /\ UNCHANGED writable

\* TodoListManager.add_task
add_task(description, priority, category, t) ==
    IF strip(description) = <<>> THEN
        /\ last' = [op |-> "add_task", description |-> description,
                    priority |-> priority, category |-> category,
                    result |-> FALSE]
        /\ UNCHANGED << tasks, next_id, file, writable >>
    ELSE
        LET task == [Task(strip(description), priority, category, t)
                        EXCEPT !.id = next_id]
        IN  /\ tasks' = Append(tasks, task)
            /\ next_id' = next_id + 1
            /\ file' = save_tasks(next_id + 1, Append(tasks, task))
            /\ last' = [op |-> "add_task", description |-> description,
                        priority |-> priority, category |-> category,
                        result |-> TRUE]
            /\ UNCHANGED writable

\* Indexes of the pending tasks whose description equals d ignoring case
PendingMatching(ts, d) ==
    { i \in Matching(ts, d) : ts[i].status = "pending" }

\* Fault variant of mark_task_completed: the loop does not return at the
\* first hit, so every pending task that matches is completed
mark_task_completed_every_match(task_description, t) ==
    LET P == PendingMatching(tasks, task_description)
    IN  IF P # {} THEN
            LET ts == [i \in 1..Len(tasks) |->
                          IF i \in P THEN mark_completed(tasks[i], t)
                          ELSE tasks[i]]
            IN  /\ tasks' = ts
                /\ file' = save_tasks(next_id, ts)
                /\ last' = [op |-> "mark_task_completed",
                            description |-> task_description,
                            result |-> TRUE]
                /\ UNCHANGED << next_id, writable >>
        ELSE
            /\ last' = [op |-> "mark_task_completed",
                        description |-> task_description,
                        result |-> FALSE]
            /\ UNCHANGED << tasks, next_id, file, writable >>

\* Fault variant of mark_task_completed: the test task.status == "pending"
\* is missing, so the first match is stamped whatever its status
mark_task_completed_any_status(task_description, t) ==
    LET M == Matching(tasks, task_description)
    IN  IF M # {} THEN
            LET ts == [tasks EXCEPT ![Min(M)] = mark_completed(@, t)]
            IN  /\ tasks' = ts
                /\ file' = save_tasks(next_id, ts)
                /\ last' = [op |-> "mark_task_completed",
                            description |-> task_description,
                            result |-> TRUE]
                /\ UNCHANGED << next_id, writable >>
        ELSE
            /\ last' = [op |-> "mark_task_completed",
                        description |-> task_description,
                        result |-> FALSE]
            /\ UNCHANGED << tasks, next_id, file, writable >>

\* TodoListManager.mark_task_completed: the loop returns at the first task
\* that matches and is pending
mark_task_completed(task_description, t) ==
    LET P == PendingMatching(tasks, task_description)
    IN  IF P # {} THEN
            LET ts == [tasks EXCEPT ![Min(P)] = mark_completed(@, t)]
            IN  /\ tasks' = ts
                /\ file' = save_tasks(next_id, ts)
                /\ last' = [op |-> "mark_task_completed",
                            description |-> task_description,
                            result |-> TRUE]
                /\ UNCHANGED << next_id, writable >>
        ELSE
            /\ last' = [op |-> "mark_task_completed",
                        description |-> task_description,
                        result |-> FALSE]
            /\ UNCHANGED << tasks, next_id, file, writable >>

\* Indexes of the pending tasks whose id is task_id
PendingWithId(ts, task_id) ==
    { i \in 1..Len(ts) : ts[i].id = task_id /\ ts[i].status = "pending" }

\* Fault variant of mark_task_completed_by_id: the test
\* task.status == "pending" is missing
mark_task_completed_by_id_any_status(task_id, t) ==
    LET W == { i \in 1..Len(tasks) : tasks[i].id = task_id }
    IN  IF W # {} THEN
            LET ts == [tasks EXCEPT ![Min(W)] = mark_completed(@, t)]
            IN  /\ tasks' = ts
                /\ file' = save_tasks(next_id, ts)
                /\ last' = [op |-> "mark_task_completed_by_id",
                            task_id |-> task_id, result |-> TRUE]
                /\ UNCHANGED << next_id, writable >>
        ELSE
            /\ last' = [op |-> "mark_task_completed_by_id",
                        task_id |-> task_id, result |-> FALSE]
            /\ UNCHANGED << tasks, next_id, file, writable >>

\* TodoListManager.mark_task_completed_by_id
mark_task_completed_by_id(task_id, t) ==
    LET P == PendingWithId(tasks, task_id)
    IN  IF P # {} THEN
            LET ts == [tasks EXCEPT ![Min(P)] = mark_completed(@, t)]
            IN  /\ tasks' = ts
                /\ file' = save_tasks(next_id, ts)
                /\ last' = [op |-> "mark_task_completed_by_id",
                            task_id |-> task_id, result |-> TRUE]
                /\ UNCHANGED << next_id, writable >>
        ELSE
            /\ last' = [op |-> "mark_task_completed_by_id",
                        task_id |-> task_id, result |-> FALSE]
            /\ UNCHANGED << tasks, next_id, file, writable >>

\* list.pop(i), i counted from 1
Pop(ts, i) == SubSeq(ts, 1, i - 1) \o SubSeq(ts, i + 1, Len(ts))

\* Fault variant of remove_task: self.save_tasks() is missing
remove_task_not_saved(task_description) ==
    LET M == Matching(tasks, task_description)
    IN  IF M # {} THEN
            /\ tasks' = Pop(tasks, Min(M))
            /\ last' = [op |-> "remove_task",
                        description |-> task_description,
                        result |-> TRUE]
            /\ UNCHANGED << next_id, file, writable >>
        ELSE
            /\ last' = [op |-> "remove_task",
                        description |-> task_description,
                        result |-> FALSE]
            /\ UNCHANGED << tasks, next_id, file, writable >>

\* Fault variant of remove_task: every task that matches is dropped
remove_task_every_match(task_description) ==
    LET M == Matching(tasks, task_description)
    IN  IF M # {} THEN
            LET ts == SelectSeq(tasks,
                        LAMBDA x : lower(x.description)
                                      # lower(task_description))
            IN  /\ tasks' = ts
                /\ file' = save_tasks(next_id, ts)
                /\ last' = [op |-> "remove_task",
                            description |-> task_description,
                            result |-> TRUE]
                /\ UNCHANGED << next_id, writable >>
        ELSE
            /\ last' = [op |-> "remove_task",
                        description |-> task_description,
                        result |-> FALSE]
            /\ UNCHANGED << tasks, next_id, file, writable >>

\* Fault variant of remove_task: self.tasks.pop() without the index drops
\* the last task of the list
remove_task_last_popped(task_description) ==
    LET M == Matching(tasks, task_description)
    IN  IF M # {} THEN
            LET ts == Pop(tasks, Len(tasks))
            IN  /\ tasks' = ts
                /\ file' = save_tasks(next_id, ts)
                /\ last' = [op |-> "remove_task",
                            description |-> task_description,
                            result |-> TRUE]
                /\ UNCHANGED << next_id, writable >>
        ELSE
            /\ last' = [op |-> "remove_task",
                        description |-> task_description,
                        result |-> FALSE]
            /\ UNCHANGED << tasks, next_id, file, writable >>

\* TodoListManager.remove_task: the loop pops the first task that matches
remove_task(task_description) ==
    LET M == Matching(tasks, task_description)
    IN  IF M # {} THEN
            LET ts == Pop(tasks, Min(M))
            IN  /\ tasks' = ts
                /\ file' = save_tasks(next_id, ts)
                /\ last' = [op |-> "remove_task",
                            description |-> task_description,
                            result |-> TRUE]
                /\ UNCHANGED << next_id, writable >>
        ELSE
            /\ last' = [op |-> "remove_task",
                        description |-> task_description,
                        result |-> FALSE]
            /\ UNCHANGED << tasks, next_id, file, writable >>

\* Fault variant of clear_all_tasks: self.next_id = 1 is missing
clear_all_tasks_counter_kept ==
    /\ tasks' = <<>>
    /\ next_id' = next_id
    /\ file' = save_tasks(next_id, <<>>)
    /\ last' = [op |-> "clear_all_tasks", result |-> TRUE]
    /\ UNCHANGED writable

\* TodoListManager.clear_all_tasks
clear_all_tasks ==
    /\ tasks' = <<>>
    /\ next_id' = 1
    /\ file' = save_tasks(1, <<>>)
    /\ last' = [op |-> "clear_all_tasks", result |-> TRUE]
    /\ UNCHANGED writable

\* TodoListManager.__init__: a new manager on the same data_file replaces
\* the current one
TodoListManager(t) ==
    LET m == load_tasks(file, t)
    IN  /\ tasks' = m.tasks
        /\ next_id' = m.next_id
        /\ last' = [op |-> "construct"]
        /\ UNCHANGED << file, writable >>

\* ------------------------------------------------------------ the machine
\* A manager constructed on an absent file, on the zero-byte temporary file
\* of the test steps, or on the empty structure environment.py writes.
Init ==
    /\ tasks = <<>>
    /\ next_id = 1
    /\ file \in { FileAbsent, FileUnparseable,
                  FileJson(SaveData(1, <<>>)) }
    /\ writable = TRUE
    /\ last = [op |-> "construct"]
    /\ assigned = {}
    /\ assigned_since_clear = {}
    /\ other = <<>>

\* ids handed to mark_task_completed_by_id: 0 is never a task's id
TaskIds == 0..MaxId

\* The history variables record the id a successful add_task hands out.
AddTask ==
    /\ next_id <= MaxId
    /\ \E a \in AddArguments, t \in Timestamps :
          add_task(a[1], a[2], a[3], t)
    /\ assigned' =
          IF last'.result THEN assigned \cup {tasks'[Len(tasks')].id}
          ELSE assigned
    /\ assigned_since_clear' =
          IF last'.result
          THEN assigned_since_clear \cup {tasks'[Len(tasks')].id}
          ELSE assigned_since_clear
    /\ UNCHANGED other

MarkTaskCompleted ==
    /\ \E d \in Descriptions, t \in Timestamps : mark_task_completed(d, t)
    /\ UNCHANGED << assigned, assigned_since_clear, other >>

MarkTaskCompletedById ==
    /\ \E i \in TaskIds, t \in Timestamps : mark_task_completed_by_id(i, t)
    /\ UNCHANGED << assigned, assigned_since_clear, other >>

RemoveTask ==
    /\ \E d \in Descriptions : remove_task(d)
    /\ UNCHANGED << assigned, assigned_since_clear, other >>

ClearAllTasks ==
    /\ clear_all_tasks
    /\ assigned_since_clear' = {}
    /\ UNCHANGED << assigned, other >>

Construct ==
    /\ \E t \in Timestamps : TodoListManager(t)
    /\ UNCHANGED << assigned, assigned_since_clear, other >>

Next ==
    \/ AddTask
    \/ MarkTaskCompleted
    \/ MarkTaskCompletedById
    \/ RemoveTask
    \/ ClearAllTasks
    \/ Construct

\* Every write of the backing file succeeds (writable stays TRUE).
Spec == Init /\ [][Next]_vars

\* A manager constructed while its backing file cannot be written (a
\* read-only location, a full disk): save_tasks takes its except branch.
InitUnwritable ==
    /\ tasks = <<>>
    /\ next_id = 1
    /\ file \in { FileAbsent, FileUnparseable,
                  FileJson(SaveData(1, <<>>)) }
    /\ writable = FALSE
    /\ last = [op |-> "construct"]
    /\ assigned = {}
    /\ assigned_since_clear = {}
    /\ other = <<>>

\* The environment makes the backing file writable again.
StorageRepaired ==
    /\ ~writable
    /\ writable' = TRUE
    /\ UNCHANGED << tasks, next_id, file, last,
                    assigned, assigned_since_clear, other >>

NextFaulty ==
    \/ Next
    \/ StorageRepaired

\* Writes of the backing file fail until the storage is repaired.
SpecFaulty == InitUnwritable /\ [][NextFaulty]_vars

\* A well-formed task record of the persisted format.
GoodRecord ==
    [ id             |-> 1,
      description    |-> <<"a">>,
      status         |-> "pending",
      priority       |-> "medium",
      category       |-> "general",
      created_date   |-> "2025-01-01 10:00:00",
      completed_date |-> NoneVal ]

\* Backing files that do not follow the persisted format: unparseable
\* text, a top-level array, a task record with fields missing, a task
\* record whose priority is null instead of a string, and an object
\* without its "next_id" key.
MalformedFiles ==
    { FileUnparseable,
      FileJsonArray,
      FileJson([ next_id |-> 2,
                 tasks   |-> << [id |-> 1, description |-> <<"a">>] >> ]),
      FileJson([ next_id |-> 2,
                 tasks   |-> << [GoodRecord EXCEPT
                                    !.priority = NoneVal] >> ]),
      FileJson([ tasks |-> << GoodRecord >> ]) }

\* A manager constructed on a missing or malformed backing file.
InitMalformed ==
    /\ file \in {FileAbsent} \cup MalformedFiles
    /\ \E t \in Timestamps :
          /\ tasks = load_tasks(file, t).tasks
          /\ next_id = load_tasks(file, t).next_id
    /\ writable = TRUE
    /\ last = [op |-> "construct"]
    /\ assigned = {}
    /\ assigned_since_clear = {}
    /\ other = <<>>

\* The manager's operations after a construction on such a file.
SpecMalformed == InitMalformed /\ [][Next]_vars

\* Two managers constructed on the same backing file, each in its own
\* process: tasks and next_id are the fields of the manager whose process
\* runs, other holds the fields of the manager that waits.
InitTwo ==
    /\ file \in { FileAbsent, FileJson(SaveData(1, <<>>)) }
    /\ tasks = <<>>
    /\ next_id = 1
    /\ other = << [tasks |-> <<>>, next_id |-> 1] >>
    /\ writable = TRUE
    /\ last = [op |-> "construct"]
    /\ assigned = {}
    /\ assigned_since_clear = {}

\* The scheduler lets the other process run: no lock on data_file and no
\* reload stands between two operations of different managers.
SwitchManager ==
    /\ other # <<>>
    /\ tasks' = other[1].tasks
    /\ next_id' = other[1].next_id
    /\ other' = << [tasks |-> tasks, next_id |-> next_id] >>
    /\ UNCHANGED << file, writable, last, assigned, assigned_since_clear >>

\* The operations of the manager that runs, on the inputs SharedArguments
\* and SharedTimestamps; the history variables follow the single manager
\* of Spec and are not kept here.
SharedAddTask ==
    /\ next_id <= MaxSharedId
    /\ \E a \in SharedArguments, t \in SharedTimestamps :
          add_task(a[1], a[2], a[3], t)
    /\ UNCHANGED << assigned, assigned_since_clear, other >>

SharedMarkTaskCompleted ==
    /\ \E a \in SharedArguments, t \in SharedTimestamps :
          mark_task_completed(a[1], t)
    /\ UNCHANGED << assigned, assigned_since_clear, other >>

SharedMarkTaskCompletedById ==
    /\ \E i \in 1..MaxSharedId, t \in SharedTimestamps :
          mark_task_completed_by_id(i, t)
    /\ UNCHANGED << assigned, assigned_since_clear, other >>

SharedRemoveTask ==
    /\ \E a \in SharedArguments : remove_task(a[1])
    /\ UNCHANGED << assigned, assigned_since_clear, other >>

SharedClearAllTasks ==
    /\ clear_all_tasks
    /\ UNCHANGED << assigned, assigned_since_clear, other >>

SharedConstruct ==
    /\ \E t \in SharedTimestamps : TodoListManager(t)
    /\ UNCHANGED << assigned, assigned_since_clear, other >>

NextTwo ==
    \/ SharedAddTask
    \/ SharedMarkTaskCompleted
    \/ SharedMarkTaskCompletedById
    \/ SharedRemoveTask
    \/ SharedClearAllTasks
    \/ SharedConstruct
    \/ SwitchManager

SpecTwo == InitTwo /\ [][NextTwo]_vars

\* ================================================================ claims
\* Vocabulary of the claims.

\* The operations that write the backing file when they succeed.
MutatingOps ==
    { "add_task", "mark_task_completed", "mark_task_completed_by_id",
      "remove_task", "clear_all_tasks" }

\* a equals b "case-insensitively"
EqualIgnoringCase(a, b) ==
    /\ Len(a) = Len(b)
    /\ \A i \in 1..Len(a) : LowerChar(a[i]) = LowerChar(b[i])

\* The backing file holds exactly the manager's counter and, record by
\* record and field by field, its task sequence.
FileMirrorsMemory ==
    /\ file.kind = "json"
    /\ file.data.next_id = next_id
    /\ Len(file.data.tasks) = Len(tasks)
    /\ \A i \in 1..Len(tasks) :
          /\ file.data.tasks[i].id = tasks[i].id
          /\ file.data.tasks[i].description = tasks[i].description
          /\ file.data.tasks[i].status = tasks[i].status
          /\ file.data.tasks[i].priority = tasks[i].priority
          /\ file.data.tasks[i].category = tasks[i].category
          /\ file.data.tasks[i].created_date = tasks[i].created_date
          /\ file.data.tasks[i].completed_date = tasks[i].completed_date

\* ---------------------------------------------------------------- C1
\* C1: with every file write succeeding, after each mutating operation that
\* returned success the backing file's next_id and ordered task records
\* equal the manager's in-memory next_id and task sequence.
C1_PersistenceMirror ==
    (last.op \in MutatingOps /\ last.result) => FileMirrorsMemory

\* a completion has just been persisted with two tasks in the list
C1_Witness ==
    /\ last.op = "mark_task_completed_by_id"
    /\ last.result
    /\ Len(tasks) = 2
    /\ file.kind = "json"

\* ---------------------------------------------------------------- C2
\* The step is a successful add_task; NewId is the id it handed out.
AddSucceeds == last'.op = "add_task" /\ last'.result
NewId == tasks'[Len(tasks')].id

\* C2 (as claimed): over add_task, mark_task_completed,
\* mark_task_completed_by_id, remove_task and clear_all_tasks the next-id
\* counter never decrements and an id once assigned is never assigned to a
\* later task: each new id exceeds every id assigned before.
C2_Original ==
    [][ last'.op \in MutatingOps =>
          /\ next_id' >= next_id
          /\ AddSucceeds => \A j \in assigned : j < NewId ]_vars

\* C2 (amended): add_task, mark_task_completed, mark_task_completed_by_id
\* and remove_task never decrement the next-id counter, and every id
\* add_task assigns exceeds every id assigned since the last
\* clear_all_tasks (so none is reused, even after a removal);
\* clear_all_tasks sets the counter back to 1.
C2_MonotonicBetweenClears ==
    [][ /\ last'.op \in MutatingOps \ {"clear_all_tasks"} =>
            /\ next_id' >= next_id
            /\ AddSucceeds =>
                  \A j \in assigned_since_clear : j < NewId
        /\ last'.op = "clear_all_tasks" => next_id' = 1 ]_vars

\* the task with id 1 was removed and the next add_task got id 2
C2_Witness ==
    /\ last.op = "add_task"
    /\ last.result
    /\ Len(tasks) = 1
    /\ tasks[1].id = 2
    /\ assigned_since_clear = {1, 2}

\* ---------------------------------------------------------------- C3
\* C3: in every state reachable from a manager constructed on an absent
\* file or on a file a manager wrote, no two tasks of the in-memory
\* sequence have the same id and every id is a positive integer.
C3_UniquePositiveIds ==
    /\ \A i, j \in 1..Len(tasks) : i # j => tasks[i].id # tasks[j].id
    /\ \A i \in 1..Len(tasks) : tasks[i].id \in Nat /\ tasks[i].id >= 1

\* a manager constructed on a file a manager wrote, holding two tasks
C3_Witness ==
    /\ last.op = "construct"
    /\ Len(tasks) = 2
    /\ file.kind = "json"

\* ---------------------------------------------------------------- C4
\* The list of a manager on which only successful adds were made:
\* ids 1..n in list order and the counter at n + 1.
IdsCountFromOne ==
    /\ next_id = Len(tasks) + 1
    /\ \A i \in 1..Len(tasks) : tasks[i].id = i

\* C4: add_task with a description that is non-empty after trimming
\* returns success, appends exactly one task (trimmed description, status
\* pending, null completed_date, the given priority and category, id = the
\* pre-call next-id), raises next-id by exactly 1 and leaves every
\* pre-existing task in its position with its fields; hence adds on a
\* fresh manager keep the ids 1..n in call order.
C4_AddTaskEffect ==
    [][ (last'.op = "add_task" /\ strip(last'.description) # <<>>) =>
          /\ last'.result = TRUE
          /\ Len(tasks') = Len(tasks) + 1
          /\ \A i \in 1..Len(tasks) : tasks'[i] = tasks[i]
          /\ LET new == tasks'[Len(tasks')]
             IN  /\ new.description = strip(last'.description)
                 /\ new.status = "pending"
                 /\ new.completed_date = NoneVal
                 /\ new.priority = last'.priority
                 /\ new.category = last'.category
                 /\ new.id = next_id
          /\ next_id' = next_id + 1
          /\ IdsCountFromOne => IdsCountFromOne' ]_vars

\* a padded description was added, trimmed, behind an existing task
C4_Witness ==
    /\ last.op = "add_task"
    /\ last.result
    /\ last.description = <<" ", "a", " ">>
    /\ Len(tasks) = 2
    /\ tasks[2].description = <<"a">>
    /\ tasks[2].priority = "high"

\* ---------------------------------------------------------------- C5
\* d is a non-empty string without leading or trailing whitespace
NonEmptyTrimmed(d) ==
    /\ d # <<>>
    /\ Head(d) \notin Whitespace
    /\ d[Len(d)] \notin Whitespace

\* C5: for every non-empty trimmed string d and every reachable state,
\* add_task(d) returns success and contains_task(d) is true right after.
C5_AddThenContains ==
    (last.op = "add_task" /\ NonEmptyTrimmed(last.description)) =>
        (last.result /\ contains_task(last.description))

\* an upper-case description was added behind an unrelated task
C5_Witness ==
    /\ last.op = "add_task"
    /\ last.description = <<"A">>
    /\ last.result
    /\ Len(tasks) = 2
    /\ tasks[1].description = <<"b">>

\* ---------------------------------------------------------------- C6
\* d is empty or consists only of whitespace
Blank(d) == \A i \in 1..Len(d) : d[i] \in Whitespace

\* C6: add_task with an empty or all-whitespace description returns
\* failure and leaves the task sequence, the next-id counter and the
\* backing file as they were (nothing is written).
C6_BlankAddRejected ==
    [][ (last'.op = "add_task" /\ Blank(last'.description)) =>
          /\ last'.result = FALSE
          /\ tasks' = tasks
          /\ next_id' = next_id
          /\ file' = file ]_vars

\* a whitespace-only add was refused on a list holding one task
C6_Witness ==
    /\ last.op = "add_task"
    /\ last.description = <<" ">>
    /\ last.result = FALSE
    /\ Len(tasks) = 1

\* ---------------------------------------------------------------- C7
\* Task u is task v with nothing but status and completed_date changed.
SameButCompletion(u, v) ==
    /\ u.id = v.id
    /\ u.description = v.description
    /\ u.priority = v.priority
    /\ u.category = v.category
    /\ u.created_date = v.created_date

\* Index k is the first task of ts, in list order, that is pending and
\* whose description equals d case-insensitively.
FirstPendingMatch(ts, d, k) ==
    /\ k \in 1..Len(ts)
    /\ EqualIgnoringCase(ts[k].description, d)
    /\ ts[k].status = "pending"
    /\ \A j \in 1..(k - 1) :
          ~(EqualIgnoringCase(ts[j].description, d)
              /\ ts[j].status = "pending")

\* C7: mark_task_completed(d): if some pending task's description equals d
\* case-insensitively, the first such task, and it alone, becomes
\* completed with a non-null completed_date, the file is persisted and the
\* call returns success; otherwise it returns failure and the sequence,
\* next-id and file are unchanged.  Either way length, order, ids and
\* next-id are unchanged.
C7_MarkTaskCompletedEffect ==
    [][ last'.op = "mark_task_completed" =>
          LET d == last'.description
              hit == \E k \in 1..Len(tasks) : FirstPendingMatch(tasks, d, k)
          IN  /\ hit =>
                    /\ last'.result = TRUE
                    /\ \A k \in 1..Len(tasks) :
                          IF FirstPendingMatch(tasks, d, k)
                          THEN /\ tasks'[k].status = "completed"
                               /\ tasks'[k].completed_date # NoneVal
                               /\ SameButCompletion(tasks'[k], tasks[k])
                          ELSE tasks'[k] = tasks[k]
                    /\ FileMirrorsMemory'
              /\ ~hit =>
                    /\ last'.result = FALSE
                    /\ tasks' = tasks
                    /\ file' = file
              /\ Len(tasks') = Len(tasks)
              /\ \A k \in 1..Len(tasks) : tasks'[k].id = tasks[k].id
              /\ next_id' = next_id ]_vars

\* of two pending tasks spelled "a" and "A", only the first was completed
C7_Witness ==
    /\ last.op = "mark_task_completed"
    /\ last.result
    /\ Len(tasks) = 2
    /\ EqualIgnoringCase(tasks[1].description, last.description)
    /\ EqualIgnoringCase(tasks[2].description, last.description)
    /\ tasks[1].description # tasks[2].description
    /\ tasks[1].status = "completed"
    /\ tasks[2].status = "pending"

\* ---------------------------------------------------------------- C8
\* The step is mark_task_completed(d) called again, right after a call of
\* mark_task_completed(d) that succeeded.
MarkedAgain ==
    /\ last.op = "mark_task_completed"
    /\ last.result
    /\ last'.op = "mark_task_completed"
    /\ last'.description = last.description

\* C8 (as claimed): after mark_task_completed(d) succeeded, calling it
\* again returns failure and changes no task state.
C8_Original ==
    [][ MarkedAgain => (last'.result = FALSE /\ tasks' = tasks) ]_vars

\* C8 (amended): after mark_task_completed(d) succeeded, calling it again
\* changes neither the completed_date nor any other field of a task that
\* is already completed; it returns failure and changes nothing unless
\* another task whose description equals d case-insensitively is still
\* pending, in which case it succeeds.
C8_SecondMarkKeepsCompleted ==
    [][ MarkedAgain =>
          LET d == last'.description
              pending == \E k \in 1..Len(tasks) :
                            FirstPendingMatch(tasks, d, k)
          IN  /\ Len(tasks') = Len(tasks)
              /\ \A k \in 1..Len(tasks) :
                    tasks[k].status = "completed" => tasks'[k] = tasks[k]
              /\ ~pending =>
                    /\ last'.result = FALSE
                    /\ tasks' = tasks
                    /\ next_id' = next_id
                    /\ file' = file
              /\ pending => last'.result = TRUE ]_vars

\* a repeated call failed on a completed task with no pending namesake
C8_Witness ==
    /\ last.op = "mark_task_completed"
    /\ last.result = FALSE
    /\ \E k \in 1..Len(tasks) :
          /\ EqualIgnoringCase(tasks[k].description, last.description)
          /\ tasks[k].status = "completed"
          /\ tasks[k].completed_date # NoneVal
    /\ \A k \in 1..Len(tasks) :
          EqualIgnoringCase(tasks[k].description, last.description)
              => tasks[k].status = "completed"

\* ---------------------------------------------------------------- C9
\* C9: after mark_task_completed(d) returned success,
\* get_task_by_description(d) returns a task, not None, and its status is
\* completed, also when several tasks share the description.
C9_MarkedThenFoundCompleted ==
    (last.op = "mark_task_completed" /\ last.result) =>
        LET found == get_task_by_description(last.description)
        IN  /\ found # <<>>
            /\ found[1].status = "completed"

\* the second of two namesakes was completed, the first one earlier
C9_Witness ==
    /\ last.op = "mark_task_completed"
    /\ last.result
    /\ Len(tasks) = 2
    /\ EqualIgnoringCase(tasks[1].description, tasks[2].description)
    /\ tasks[1].status = "completed"
    /\ tasks[2].status = "completed"
    /\ tasks[1].completed_date # tasks[2].completed_date
    /\ last.description # tasks[1].description

\* ---------------------------------------------------------------- C10
\* Index k is the first task of ts whose description equals d
\* case-insensitively.
FirstMatch(ts, d, k) ==
    /\ k \in 1..Len(ts)
    /\ EqualIgnoringCase(ts[k].description, d)
    /\ \A j \in 1..(k - 1) : ~EqualIgnoringCase(ts[j].description, d)

\* C10: remove_task(d): if some task's description equals d
\* case-insensitively (any status), exactly the first such task is
\* removed, the others keep their relative order, ids and fields, next-id
\* is unchanged, the file is persisted and the call returns success; if
\* none matches, the call returns failure and sequence, next-id and file
\* are unchanged.
C10_RemoveTaskEffect ==
    [][ last'.op = "remove_task" =>
          LET d == last'.description
              hit == \E k \in 1..Len(tasks) : FirstMatch(tasks, d, k)
          IN  /\ hit =>
                    /\ last'.result = TRUE
                    /\ Len(tasks') = Len(tasks) - 1
                    /\ \A k \in 1..Len(tasks) :
                          FirstMatch(tasks, d, k) =>
                            /\ \A i \in 1..(k - 1) : tasks'[i] = tasks[i]
                            /\ \A i \in k..Len(tasks') :
                                  tasks'[i] = tasks[i + 1]
                    /\ next_id' = next_id
                    /\ FileMirrorsMemory'
              /\ ~hit =>
                    /\ last'.result = FALSE
                    /\ tasks' = tasks
                    /\ next_id' = next_id
                    /\ file' = file ]_vars

\* the first of two namesakes was removed; the second, completed, stayed
C10_Witness ==
    /\ last.op = "remove_task"
    /\ last.result
    /\ Len(tasks) = 1
    /\ EqualIgnoringCase(tasks[1].description, last.description)
    /\ tasks[1].id = 2
    /\ tasks[1].status = "completed"

\* ---------------------------------------------------------------- C11
\* The number of tasks of ts whose description equals d case-insensitively
MatchCount(ts, d) ==
    Cardinality({ i \in 1..Len(ts) :
                    EqualIgnoringCase(ts[i].description, d) })

\* contains_task called with the description of the call made last
ContainsLastDescription == contains_task(last.description)

\* C11 (as claimed): after remove_task(d) returned success,
\* contains_task(d) is false.
C11_Original ==
    (last.op = "remove_task" /\ last.result) => ~ContainsLastDescription

\* C11 (amended): a successful remove_task(d) leaves exactly one task
\* fewer whose description equals d case-insensitively, so contains_task(d)
\* is false right afterward exactly when the removed task was the only such
\* task.
C11_RemoveDropsOneMatch ==
    [][ (last'.op = "remove_task" /\ last'.result) =>
          LET d == last'.description
          IN  /\ MatchCount(tasks', d) = MatchCount(tasks, d) - 1
              /\ ContainsLastDescription' <=> (MatchCount(tasks, d) > 1)
      ]_vars

\* the only task spelled like d was removed from behind an unrelated one
C11_Witness ==
    /\ last.op = "remove_task"
    /\ last.result
    /\ Len(tasks) = 1
    /\ tasks[1].id = 1
    /\ ~EqualIgnoringCase(tasks[1].description, last.description)
    /\ ~ContainsLastDescription

\* ---------------------------------------------------------------- C12
\* C12: clear_all_tasks, from any reachable state, returns true, leaves
\* the sequence empty (is_empty) and next-id = 1 and persists that state;
\* the add_task that succeeds next is assigned id 1.
C12_ClearAllTasksEffect ==
    [][ /\ last'.op = "clear_all_tasks" =>
            /\ last'.result = TRUE
            /\ tasks' = <<>>
            /\ is_empty'
            /\ next_id' = 1
            /\ FileMirrorsMemory'
        /\ (last.op = "clear_all_tasks" /\ AddSucceeds) => NewId = 1 ]_vars

\* two tasks were added, the list was cleared, and the next add got id 1
C12_Witness ==
    /\ last.op = "add_task"
    /\ last.result
    /\ Len(tasks) = 1
    /\ tasks[1].id = 1
    /\ assigned = {1, 2}
    /\ assigned_since_clear = {1}
    /\ FileMirrorsMemory

\* ---------------------------------------------------------------- C13
\* C13: whenever the manager's last save succeeded, a new manager
\* constructed on the same backing file holds the same next-id counter and
\* the same task sequence: same order and, per task, the same id,
\* description, status, priority, category, created_date and
\* completed_date.
C13_RoundTrip ==
    file.kind = "json" =>
        \A t \in Timestamps :
            LET m == load_tasks(file, t)
            IN  /\ m.next_id = next_id
                /\ Len(m.tasks) = Len(tasks)
                /\ \A i \in 1..Len(tasks) :
                      /\ m.tasks[i].id = tasks[i].id
                      /\ m.tasks[i].description = tasks[i].description
                      /\ m.tasks[i].status = tasks[i].status
                      /\ m.tasks[i].priority = tasks[i].priority
                      /\ m.tasks[i].category = tasks[i].category
                      /\ m.tasks[i].created_date = tasks[i].created_date
                      /\ m.tasks[i].completed_date
                            = tasks[i].completed_date

\* a saved list of a completed and a pending task, created at different
\* times
C13_Witness ==
    /\ last.op \in MutatingOps
    /\ last.result
    /\ Len(tasks) = 2
    /\ tasks[1].status = "completed"
    /\ tasks[2].status = "pending"
    /\ tasks[1].created_date # tasks[2].created_date
    /\ tasks[1].completed_date # tasks[1].created_date

\* ---------------------------------------------------------------- C14
\* C14: a manager constructed on a backing file that is missing or
\* malformed (unparseable, wrong top-level shape, task records with
\* missing fields, fields of the wrong type) holds an empty task list and
\* next-id = 1, and goes on as a fresh manager does: its ids stay unique.
C14_MalformedLoadsEmpty ==
    /\ (last.op = "construct" /\ file \in {FileAbsent} \cup MalformedFiles)
          => (tasks = <<>> /\ next_id = 1)
    /\ \A i, j \in 1..Len(tasks) : i # j => tasks[i].id # tasks[j].id

\* ---------------------------------------------------------------- C15
\* The step is an operation carried out while the file cannot be written.
WriteFails == ~writable /\ ~writable'

\* vs is ts with exactly one pending task turned completed.
CompletesOne(ts, vs) ==
    /\ Len(vs) = Len(ts)
    /\ \A i \in 1..Len(ts) : SameButCompletion(ts[i], vs[i])
    /\ \E k \in 1..Len(ts) :
          /\ ts[k].status = "pending"
          /\ vs[k].status = "completed"
          /\ vs[k].completed_date # NoneVal
          /\ \A i \in 1..Len(ts) : i # k => vs[i] = ts[i]

\* What each mutating operation does to the manager when its write
\* succeeds: the result it returns and the list and counter it leaves.
NormalOutcome ==
    /\ last'.op = "add_task" =>
          /\ last'.result = ~Blank(last'.description)
          /\ last'.result =>
                /\ Len(tasks') = Len(tasks) + 1
                /\ SubSeq(tasks', 1, Len(tasks)) = tasks
                /\ tasks'[Len(tasks')].id = next_id
                /\ tasks'[Len(tasks')].description
                      = strip(last'.description)
                /\ next_id' = next_id + 1
    /\ last'.op = "mark_task_completed" =>
          /\ last'.result = (PendingMatching(tasks, last'.description) # {})
          /\ last'.result =>
                /\ CompletesOne(tasks, tasks')
                /\ next_id' = next_id
    /\ last'.op = "mark_task_completed_by_id" =>
          /\ last'.result = (PendingWithId(tasks, last'.task_id) # {})
          /\ last'.result =>
                /\ CompletesOne(tasks, tasks')
                /\ next_id' = next_id
    /\ last'.op = "remove_task" =>
          /\ last'.result = (Matching(tasks, last'.description) # {})
          /\ last'.result =>
                /\ Len(tasks') = Len(tasks) - 1
                /\ next_id' = next_id
    /\ last'.op = "clear_all_tasks" =>
          /\ last'.result
          /\ tasks' = <<>>
          /\ next_id' = 1

\* C15: when the file write inside a mutating operation fails, the
\* operation still returns its normal result and keeps its change of the
\* list and the counter in memory; the file stays as it was, so memory and
\* file may differ afterwards.
C15_WriteFailureSwallowed ==
    [][ (WriteFails /\ last'.op \in MutatingOps) =>
            /\ NormalOutcome
            /\ file' = file ]_vars

\* an add_task has returned success while its write failed: the task is in
\* the list and the file does not hold it
C15_Witness ==
    /\ ~writable
    /\ last.op = "add_task"
    /\ last.result
    /\ Len(tasks) = 2
    /\ ~FileMirrorsMemory

\* ---------------------------------------------------------------- C16
\* The step is an operation of the manager that runs (a switch between
\* two managers changes other).
RunningManagerActs == other' = other

\* C16: two managers on one backing file are not coordinated.  Each
\* operation has the outcome it has for a manager alone on the file, with
\* nothing reported about the other manager, and each successful mutating
\* operation leaves in the file the acting manager's counter and tasks
\* only: what another manager saved before and the acting one does not
\* hold is gone.
C16_LastSaveWins ==
    [][ (RunningManagerActs /\ last'.op \in MutatingOps) =>
            /\ NormalOutcome
            /\ last'.result => FileMirrorsMemory' ]_vars

\* both managers hold one task with id 1, the two tasks differ, the manager
\* that saved last has its task in the file and the other's is not there
C16_Witness ==
    /\ other # <<>>
    /\ last.op = "add_task"
    /\ last.result
    /\ FileMirrorsMemory
    /\ Len(tasks) = 1
    /\ Len(other[1].tasks) = 1
    /\ tasks[1].id = other[1].tasks[1].id
    /\ tasks[1].description # other[1].tasks[1].description
    /\ \A i \in 1..Len(file.data.tasks) :
          file.data.tasks[i].description # other[1].tasks[1].description

\* ---------------------------------------------------------------- C17
\* Positions of the tasks of the list whose status is st.
WithStatus(st) == { i \in 1..Len(tasks) : tasks[i].status = st }

\* res holds exactly the tasks with status st, in list order: its k-th
\* element is the task at the k-th smallest position of WithStatus(st).
ExactlyInOrder(res, st) ==
    /\ Len(res) = Cardinality(WithStatus(st))
    /\ \A i \in WithStatus(st) :
          res[Cardinality({ j \in WithStatus(st) : j <= i })] = tasks[i]

\* C17: list_pending_tasks returns exactly the pending tasks and
\* list_completed_tasks exactly the completed ones, each in list order; the
\* two results share no task and together hold every task of list_tasks.
C17_PendingAndCompletedLists ==
    /\ ExactlyInOrder(list_pending_tasks, "pending")
    /\ ExactlyInOrder(list_completed_tasks, "completed")
    /\ \A i \in 1..Len(list_pending_tasks) :
          \A j \in 1..Len(list_completed_tasks) :
              list_pending_tasks[i] # list_completed_tasks[j]
    /\ Len(list_pending_tasks) + Len(list_completed_tasks)
          = Len(list_tasks)
    /\ \A i \in 1..Len(list_tasks) :
          \/ \E k \in 1..Len(list_pending_tasks) :
                list_pending_tasks[k] = list_tasks[i]
          \/ \E k \in 1..Len(list_completed_tasks) :
                list_completed_tasks[k] = list_tasks[i]

\* a completed task ahead of a pending one: each list holds one of the two
C17_Witness ==
    /\ Len(tasks) = 2
    /\ tasks[1].status = "completed"
    /\ tasks[2].status = "pending"
    /\ list_pending_tasks = << tasks[2] >>
    /\ list_completed_tasks = << tasks[1] >>

\* ---------------------------------------------------------------- C18
\* C18: mark_task_completed_by_id(i): if a task with id i exists and is
\* pending, that task, and it alone, becomes completed with a non-null
\* completed_date, the file is persisted and the call returns success; if
\* no task has id i or the task with id i is completed already, the call
\* returns failure and the sequence, next-id and file are unchanged.
C18_MarkTaskCompletedByIdEffect ==
    [][ last'.op = "mark_task_completed_by_id" =>
          LET i == last'.task_id
              hit == \E k \in 1..Len(tasks) :
                        tasks[k].id = i /\ tasks[k].status = "pending"
          IN  /\ hit =>
                    /\ last'.result = TRUE
                    /\ Len(tasks') = Len(tasks)
                    /\ \A k \in 1..Len(tasks) :
                          IF tasks[k].id = i
                          THEN /\ tasks'[k].status = "completed"
                               /\ tasks'[k].completed_date # NoneVal
                               /\ SameButCompletion(tasks'[k], tasks[k])
                          ELSE tasks'[k] = tasks[k]
                    /\ next_id' = next_id
                    /\ FileMirrorsMemory'
              /\ ~hit =>
                    /\ last'.result = FALSE
                    /\ tasks' = tasks
                    /\ next_id' = next_id
                    /\ file' = file ]_vars

\* the task with id 2 was completed by its id, and a second call with the
\* same id has just been refused; the task with id 1 is still pending
C18_Witness ==
    /\ last.op = "mark_task_completed_by_id"
    /\ last.task_id = 2
    /\ ~last.result
    /\ Len(tasks) = 2
    /\ tasks[1].status = "pending"
    /\ tasks[2].id = 2
    /\ tasks[2].status = "completed"
    /\ FileMirrorsMemory

\* ---------------------------------------------------------------- C19
\* Positions i before and j after a step hold the same task: no single
\* operation both drops a task and hands its id out again.
SameTask(i, j) ==
    /\ i \in 1..Len(tasks)
    /\ j \in 1..Len(tasks')
    /\ tasks[i].id = tasks'[j].id

\* C19: task status is one-way.  The task an add_task appends is pending,
\* and a task that is completed before an operation is, if the operation
\* leaves it in the sequence, completed after it: it leaves the completed
\* state only by being removed or cleared.
C19_StatusOneWay ==
    [][ /\ AddSucceeds => tasks'[Len(tasks')].status = "pending"
        /\ \A i \in 1..Len(tasks), j \in 1..Len(tasks') :
              (SameTask(i, j) /\ tasks[i].status = "completed")
                 => tasks'[j].status = "completed" ]_vars

\* a completed task and a pending one, both reloaded from the file by a
\* newly constructed manager
C19_Witness ==
    /\ last.op = "construct"
    /\ Len(tasks) = 2
    /\ tasks[1].status = "completed"
    /\ tasks[2].status = "pending"

\* ---------------------------------------------------------------- C20
\* completed_date is null exactly for the pending tasks, and every task is
\* pending or completed.
CompletedDateFollowsStatus ==
    \A i \in 1..Len(tasks) :
        /\ tasks[i].status \in { "pending", "completed" }
        /\ (tasks[i].completed_date = NoneVal)
              <=> (tasks[i].status = "pending")

\* C20: in every state of a fresh manager a task's completed_date is null
\* exactly when the task is pending and non-null exactly when it is
\* completed; once set, no later operation changes it.
C20_CompletedDate ==
    /\ []CompletedDateFollowsStatus
    /\ [][ \A i \in 1..Len(tasks), j \in 1..Len(tasks') :
              (SameTask(i, j) /\ tasks[i].completed_date # NoneVal)
                 => tasks'[j].completed_date = tasks[i].completed_date
         ]_vars

\* two tasks completed at different times: the later completion, and a
\* further call that found nothing pending, left the earlier stamp alone
C20_Witness ==
    /\ last.op = "mark_task_completed"
    /\ ~last.result
    /\ Len(tasks) = 2
    /\ tasks[1].status = "completed"
    /\ tasks[2].status = "completed"
    /\ tasks[1].completed_date # NoneVal
    /\ tasks[2].completed_date # NoneVal
    /\ tasks[1].completed_date # tasks[2].completed_date
    /\ EqualIgnoringCase(tasks[1].description, last.description)

\* ---------------------------------------------------------------- C21
\* C21: in every state of a fresh manager, removals and clear_all_tasks
\* included, next-id is at least 1 and greater than the id of every task
\* in the sequence, and the ids of the tasks rise strictly in list order.
C21_CounterAboveRisingIds ==
    /\ next_id >= 1
    /\ \A i \in 1..Len(tasks) : tasks[i].id < next_id
    /\ \A i, j \in 1..Len(tasks) : i < j => tasks[i].id < tasks[j].id

\* the first of two tasks has just been removed: the task with id 2 is
\* alone in the list and the counter stays at 3
C21_Witness ==
    /\ last.op = "remove_task"
    /\ last.result
    /\ Len(tasks) = 1
    /\ tasks[1].id = 2
    /\ next_id = 3
====
